---- MODULE Spec2Model ----
(***************************************************************************)
(* Model of oyduoe/Projet: the data preparation script (data.py: currency  *)
(* normalisation, return series) and the portfolio engine of               *)
(* streamlit_app.py (optimiser_portefeuille, analyser_portefeuille,        *)
(* plot_perf).                                                             *)
(***************************************************************************)
EXTENDS Integers, Sequences, FiniteSets, TLC

VARIABLES
    \* data.py, devisechange
    df, df_forex, target_curr, df_converted, printed, fx_pc, back, back_recip,
    \* data.py, module level (lines 98-103)
    price_data_converted, returns_data, fill_method, ret_pc,
    \* streamlit_app.py, optimiser_portefeuille
    rendements, mode, notes, max_poids_par_actif, cap_passed, solver_called,
    resultat, poids, opt_pc,
    \* streamlit_app.py, analyser_portefeuille and plot_perf
    metriques, actifs, div_by_zero, perf, ana_pc

vars == <<df, df_forex, target_curr, df_converted, printed, fx_pc, back, back_recip,
          price_data_converted, returns_data, fill_method, ret_pc,
          rendements, mode, notes, max_poids_par_actif, cap_passed, solver_called,
          resultat, poids, opt_pc, metriques, actifs, div_by_zero, perf, ana_pc>>

fxVars == <<df, df_forex, target_curr, df_converted, printed, fx_pc, back, back_recip>>
retVars == <<price_data_converted, returns_data, fill_method, ret_pc>>
optVars == <<rendements, mode, notes, max_poids_par_actif, cap_passed, solver_called,
             resultat, poids, opt_pc>>
anaVars == <<metriques, actifs, div_by_zero, perf, ana_pc>>

(***************************************************************************)
(* Floating point.  A float is NaN, +/-inf or m * 2^e with |m| < 2^Prec;   *)
(* every operation rounds its exact result to Prec significant bits, ties  *)
(* to even, as IEEE-754 does with 53 bits.  Finite values are kept in      *)
(* canonical form (m odd, or m = 0 and e = 0).                             *)
(***************************************************************************)
Prec == 4

Pow2(n) == 2 ^ n

NaN == [k |-> "nan", m |-> 0, e |-> 0]
Inf(s) == [k |-> "inf", m |-> s, e |-> 0]
Zero == [k |-> "num", m |-> 0, e |-> 0]

RECURSIVE Canon(_, _)
Canon(m, e) ==
    IF m = 0 THEN Zero
    ELSE IF m % 2 = 0 THEN Canon(m \div 2, e + 1)
    ELSE [k |-> "num", m |-> m, e |-> e]

Flt(m, e) == Canon(m, e)
One == Flt(1, 0)

Sign(x) == IF x > 0 THEN 1 ELSE IF x < 0 THEN -1 ELSE 0
Abs(x) == IF x < 0 THEN -x ELSE x

\* num/den * 2^e, num > 0, den > 0, rounded to Prec bits (round half to even)
RECURSIVE RoundPos(_, _, _)
RoundPos(num, den, e) ==
    IF num < den * Pow2(Prec - 1) THEN RoundPos(2 * num, den, e - 1)
    ELSE IF num >= den * Pow2(Prec) THEN RoundPos(num, 2 * den, e + 1)
    ELSE LET q == num \div den
             r == num % den
             up == (2 * r > den) \/ (2 * r = den /\ q % 2 = 1)
         IN  Canon(IF up THEN q + 1 ELSE q, e)

Round(num, den, e) ==
    IF num = 0 THEN Zero
    ELSE LET p == RoundPos(Abs(num), den, e)
         IN  [p EXCEPT !.m = Sign(num) * p.m]

Fmul(a, b) ==
    IF a.k = "nan" \/ b.k = "nan" THEN NaN
    ELSE IF a.k = "inf" \/ b.k = "inf"
         THEN IF a.m = 0 \/ b.m = 0 THEN NaN ELSE Inf(Sign(a.m) * Sign(b.m))
    ELSE Round(a.m * b.m, 1, a.e + b.e)

Fdiv(a, b) ==
    IF a.k = "nan" \/ b.k = "nan" THEN NaN
    ELSE IF a.k = "inf"
         THEN IF b.k = "inf" THEN NaN
              ELSE Inf(Sign(a.m) * (IF b.m < 0 THEN -1 ELSE 1))
    ELSE IF b.k = "inf" THEN Zero
    ELSE IF b.m = 0
         THEN IF a.m = 0 THEN NaN ELSE Inf(Sign(a.m))
    ELSE Round(a.m * Sign(b.m), Abs(b.m), a.e - b.e)

Fsub(a, b) ==
    IF a.k = "nan" \/ b.k = "nan" THEN NaN
    ELSE IF a.k = "inf"
         THEN IF b.k = "inf" /\ b.m = a.m THEN NaN ELSE a
    ELSE IF b.k = "inf" THEN Inf(-b.m)
    ELSE LET lo == IF a.e < b.e THEN a.e ELSE b.e
         IN  Round(a.m * Pow2(a.e - lo) - b.m * Pow2(b.e - lo), 1, lo)

IsFinite(a) == a.k = "num"

(***************************************************************************)
(* Exact numbers.  The weights, the returns and the metrics of the         *)
(* portfolio engine are rationals num/den in lowest terms (den > 0): what  *)
(* the claims compare there (1e-6, 1e-4, two decimals) is far above the    *)
(* rounding of a double.                                                   *)
(***************************************************************************)
RECURSIVE GCD(_, _)
GCD(a, b) == IF b = 0 THEN a ELSE GCD(b, a % b)

Rat(n, d) ==
    LET g == GCD(Abs(n), d)
    IN  [num |-> n \div g, den |-> d \div g]

RAdd(a, b) ==
    LET l == (a.den \div GCD(a.den, b.den)) * b.den
    IN  Rat(a.num * (l \div a.den) + b.num * (l \div b.den), l)
RNeg(a) == [num |-> -a.num, den |-> a.den]
RSub(a, b) == RAdd(a, RNeg(b))
RMul(a, b) ==
    LET x == Rat(a.num, b.den)
        y == Rat(b.num, a.den)
    IN  [num |-> x.num * y.num, den |-> x.den * y.den]
RLess(a, b) == a.num * b.den < b.num * a.den
RLeq(a, b) == a.num * b.den <= b.num * a.den

RECURSIVE RSum(_)
RSum(seq) == IF seq = <<>> THEN Rat(0, 1) ELSE RAdd(seq[1], RSum(Tail(seq)))

(***************************************************************************)
(* Tables.  A DataFrame is its index (one entry per row), its column       *)
(* labels and its values, row-major: data[i][j] is row i, column j.        *)
(* An index entry is a pandas Timestamp (day and time of day) or, after    *)
(* `.date`, a datetime.date.                                               *)
(***************************************************************************)
Timestamp(day, tod) == [day |-> day, tod |-> tod, type |-> "Timestamp"]
Date(day) == [day |-> day, tod |-> 0, type |-> "date"]

Frame(index, columns, data) == [index |-> index, columns |-> columns, data |-> data]
NoFrame == Frame(<<>>, <<>>, <<>>)

Rows(t) == 1..Len(t.index)
Cols(t) == 1..Len(t.columns)
Column(t, j) == [i \in Rows(t) |-> t.data[i][j]]

\* the parts of the state a run does not use
NoNotes == [given |-> FALSE, scores |-> <<>>]
NoResult == [x |-> <<>>, success |-> FALSE]
NoMetrics == <<>>

OptIdle ==
    /\ rendements = NoFrame
    /\ mode = "none"
    /\ notes = NoNotes
    /\ max_poids_par_actif = Rat(1, 4)
    /\ cap_passed = FALSE
    /\ solver_called = FALSE
    /\ resultat = NoResult
    /\ poids = <<>>
    /\ opt_pc = "idle"

AnaIdle ==
    /\ metriques = NoMetrics
    /\ actifs = <<>>
    /\ div_by_zero = FALSE
    /\ perf = <<>>
    /\ ana_pc = "idle"

\* pd.to_datetime(index).date
ToDates(index) == [i \in 1..Len(index) |-> Date(index[i].day)]

currency_dict ==
    [t \in {"EQT", "ACGBY", "ATEYY", "AFL", "ANET", "ARES", "ACGL", "AU", "AON",
            "AVB", "AVY", "KMI"} |-> "USD"] @@
    [t \in {"AIR.PA", "MB.MI", "BAMI.MI", "PST.MI"} |-> "EUR"] @@
    [t \in {"2395.TW", "2618.TW"} |-> "TWD"] @@
    [t \in {"TEMN.SW", "HOLN.SW"} |-> "CHF"] @@
    [t \in {"2802.T", "9202.T"} |-> "JPY"] @@
    ("SAGA-B.ST" :> "SEK") @@ ("ADM.L" :> "GBP") @@ ("300999.SZ" :> "CNY") @@
    ("A17U.SI" :> "SGD") @@ ("ALE.WA" :> "PLN") @@ ("2588.HK" :> "HKD") @@
    ("INDIGO.NS" :> "INR")

\* df_forex.loc[df_forex.index.isin(df.index)]
forex_filtre(index, forex) ==
    LET keep == SelectSeq([i \in Rows(forex) |-> i],
                          LAMBDA i : \E r \in 1..Len(index) : index[r] = forex.index[i])
    IN  Frame([n \in 1..Len(keep) |-> forex.index[keep[n]]],
              forex.columns,
              [n \in 1..Len(keep) |-> forex.data[keep[n]]])

\* mutant: the direct column wins over an inverse column that comes first
MatchingColumn_preferDirect(columns, direct, inverse) ==
    LET d == {c \in 1..Len(columns) : columns[c] = direct}
        v == {c \in 1..Len(columns) : columns[c] = inverse}
    IN  IF d # {} THEN CHOOSE c \in d : TRUE
        ELSE IF v # {} THEN CHOOSE c \in v : TRUE ELSE 0

\* mutant: with no matching column the scan falls back on the first column
MatchingColumn_fallback(columns, direct, inverse) ==
    LET hits == {c \in 1..Len(columns) : columns[c] = direct \/ columns[c] = inverse}
    IN  IF hits = {} THEN (IF Len(columns) > 0 THEN 1 ELSE 0)
        ELSE CHOOSE c \in hits : \A d \in hits : c <= d

\* the position of the first column of `columns` that the scan of lines 79-87
\* stops at (the direct or the inverse code, whichever comes first); 0 if none
MatchingColumn(columns, direct, inverse) ==
    LET hits == {c \in 1..Len(columns) : columns[c] = direct \/ columns[c] = inverse}
    IN  IF hits = {} THEN 0 ELSE CHOOSE c \in hits : \A d \in hits : c <= d

\* mutant: the inverse rate is multiplied with, like the direct one
ConvertedValue_multiplyOnly(isDirect, price, rate) == Fmul(price, rate)

\* lines 80-81 (direct: multiply) and 84-85 (inverse: divide), one cell
ConvertedValue(isDirect, price, rate) ==
    IF isDirect THEN Fmul(price, rate) ELSE Fdiv(price, rate)

\* df_converted[stock] * forex_filtre[change]: the two Series are aligned on
\* their index labels; a date of df with no FX row yields NaN
ConvertedColumn(index, col, ff, c, isDirect) ==
    [i \in 1..Len(index) |->
        IF \E r \in Rows(ff) : ff.index[r] = index[i]
        THEN LET r == CHOOSE r \in Rows(ff) : ff.index[r] = index[i]
             IN  ConvertedValue(isDirect, col[i], ff.data[r][c])
        ELSE NaN]

\* mutant: the converted values are written to every column
SetColumn_all(t, j, col) ==
    [t EXCEPT !.data = [i \in Rows(t) |-> [c \in Cols(t) |-> col[i]]]]

SetColumn(t, j, col) ==
    [t EXCEPT !.data = [i \in Rows(t) |-> [t.data[i] EXCEPT ![j] = col[i]]]]

RateNotFound(stock_curr, target) == <<"Taux de change non trouve pour", stock_curr, target>>

\* the loop of lines 75-89 from column j on; a ticker missing from
\* currency_dict raises KeyError and ends the call
RECURSIVE ConvertFrom(_, _, _, _, _)
ConvertFrom(j, conv, out, ff, target) ==
    IF j > Len(conv.columns) THEN [raised |-> FALSE, df_converted |-> conv, printed |-> out]
    ELSE LET stock == conv.columns[j] IN
         IF stock \notin DOMAIN currency_dict
         THEN [raised |-> TRUE, df_converted |-> NoFrame, printed |-> out]
         ELSE LET stock_curr == currency_dict[stock] IN
              IF stock_curr = target THEN ConvertFrom(j + 1, conv, out, ff, target)
              ELSE LET direct == stock_curr \o target
                       inverse == target \o stock_curr
                       c == MatchingColumn(ff.columns, direct, inverse)
                   IN  IF c = 0
                       THEN ConvertFrom(j + 1, conv,
                                        Append(out, RateNotFound(stock_curr, target)),
                                        ff, target)
                       ELSE ConvertFrom(j + 1,
                                SetColumn(conv, j,
                                    ConvertedColumn(conv.index, Column(conv, j), ff, c,
                                                    ff.columns[c] = direct)),
                                out, ff, target)

\* devisechange(df, df_forex, target_curr): what it returns and prints
devisechange(prices, forex, target) ==
    LET dated == [prices EXCEPT !.index = ToDates(prices.index)]
        fdated == [forex EXCEPT !.index = ToDates(forex.index)]
        ff == forex_filtre(dated.index, fdated)
    IN  ConvertFrom(1, dated, <<>>, ff, target)

(***************************************************************************)
(* The currency normaliser's inputs.                                       *)
(***************************************************************************)
MaxCols == 2
MaxDates == 2

\* "XXX" is a ticker currency_dict does not know
TickerPool == {"EQT", "AIR.PA", "ADM.L", "XXX"}
PairPool == {"USDEUR", "EURUSD", "GBPEUR"}
Targets == {"EUR", "USD"}

PriceSeq == <<Flt(5, 0), Flt(13, -2), NaN, Flt(11, 0)>>
PriceStarts == {0, 2}
RateSeq == <<Flt(7, -2), Flt(13, -4)>>

\* the sequences of distinct elements of S, of length lo..hi
DistinctSeqs(S, lo, hi) ==
    UNION {{s \in [1..n -> S] : \A a, b \in 1..n : a # b => s[a] # s[b]} : n \in lo..hi}

RetTickers == <<"EQT", "AIR.PA", "ADM.L", "AFL", "KMI">>

Cyclic(seq, k) == seq[((k - 1) % Len(seq)) + 1]

\* prices on days 1..MaxDates (midnight Timestamps, as yfinance gives them);
\* column j takes its values along PriceSeq from offset start[j] (a NaN is a
\* date before the asset's first quote, which the forward fill leaves)
PriceFrames ==
    {Frame([i \in 1..MaxDates |-> Timestamp(i, 0)], cols,
           [i \in 1..MaxDates |-> [j \in 1..Len(cols) |-> Cyclic(PriceSeq, start[j] + i)]]) :
        <<cols, start>> \in
            UNION {{<<c, s>> : s \in [1..Len(c) -> PriceStarts]} :
                   c \in DistinctSeqs(TickerPool, 1, MaxCols)}}

\* FX rates on the days 0..MaxDates but `missing` (0: day 0 is outside the
\* price table anyway), at time of day tod
ForexFrames ==
    {LET days == SelectSeq([i \in 1..MaxDates + 1 |-> i - 1], LAMBDA d : d # missing)
     IN  Frame([n \in 1..Len(days) |-> Timestamp(days[n], tod)], cols,
               [n \in 1..Len(days) |->
                    [j \in 1..Len(cols) |-> Cyclic(RateSeq, start[j] + days[n])]]) :
        <<cols, start, missing, tod>> \in
            UNION {{<<c, s, m, t>> : s \in [1..Len(c) -> 1..Len(RateSeq)],
                                     m \in 0..MaxDates, t \in {0, 1}} :
                   c \in DistinctSeqs(PairPool, 0, 2)}}

RetIdle ==
    /\ price_data_converted = NoFrame
    /\ returns_data = NoFrame
    /\ fill_method = "pad"
    /\ ret_pc = "idle"

InitFx ==
    /\ df \in PriceFrames
    /\ df_forex \in ForexFrames
    /\ target_curr \in Targets
    /\ df_converted = NoFrame
    /\ printed = <<>>
    /\ fx_pc = "start"
    /\ back = <<>>
    /\ back_recip = <<>>
    /\ RetIdle /\ OptIdle /\ AnaIdle

\* price_data_converted = devisechange(price_data, df_forex, target): lines
\* 70-71 rebind the index of both of the caller's tables before anything else
Devisechange ==
    /\ fx_pc = "start"
    /\ LET res == devisechange(df, df_forex, target_curr)
       IN  /\ df' = [df EXCEPT !.index = ToDates(df.index)]
           /\ df_forex' = [df_forex EXCEPT !.index = ToDates(df_forex.index)]
           /\ df_converted' = res.df_converted
           /\ printed' = res.printed
           /\ fx_pc' = IF res.raised THEN "raised" ELSE "done"
    /\ UNCHANGED <<target_curr, back, back_recip>>
    /\ UNCHANGED <<retVars, optVars, anaVars>>

\* a ticker quoted in currency cur, to carry a converted column back
TickerIn(cur) == CHOOSE t \in DOMAIN currency_dict : currency_dict[t] = cur

SwapCode(code) ==
    CASE code = "USDEUR" -> "EURUSD"
      [] code = "EURUSD" -> "USDEUR"
      [] code = "GBPEUR" -> "EURGBP"
      [] OTHER -> "EURGBP"

\* the FX table quoting every pair the other way round, at the reciprocal rate
Reciprocal(forex) ==
    Frame(forex.index,
          [j \in Cols(forex) |-> SwapCode(forex.columns[j])],
          [i \in Rows(forex) |-> [j \in Cols(forex) |-> Fdiv(One, forex.data[i][j])]])

\* column j of the converted table, quoted in target_curr, normalised back to
\* its native currency by a second call of devisechange
BackColumn(j, forex) ==
    LET native == currency_dict[df.columns[j]]
        second == Frame(df_converted.index, <<TickerIn(target_curr)>>,
                        [i \in Rows(df_converted) |-> <<df_converted.data[i][j]>>])
    IN  Column(devisechange(second, forex, native).df_converted, 1)

RoundTrip ==
    /\ fx_pc = "done"
    /\ back' = [j \in Cols(df) |-> BackColumn(j, df_forex)]
    /\ back_recip' = [j \in Cols(df) |-> BackColumn(j, Reciprocal(df_forex))]
    /\ fx_pc' = "back"
    /\ UNCHANGED <<df, df_forex, target_curr, df_converted, printed>>
    /\ UNCHANGED <<retVars, optVars, anaVars>>

NextFx == Devisechange \/ RoundTrip

SpecFx == InitFx /\ [][NextFx]_vars

(***************************************************************************)
(* Currency normaliser: claims C3..C6.                                     *)
(***************************************************************************)
Returned == fx_pc \in {"done", "back"}
Known(j) == df.columns[j] \in DOMAIN currency_dict
Native(j) == currency_dict[df.columns[j]]
HasPair(code) == \E c \in Cols(df_forex) : df_forex.columns[c] = code
PairAt(code) == CHOOSE c \in Cols(df_forex) : df_forex.columns[c] = code
HasRate(i) == \E r \in Rows(df_forex) : df_forex.index[r].day = df.index[i].day
Rate(i, code) ==
    LET r == CHOOSE r \in Rows(df_forex) : df_forex.index[r].day = df.index[i].day
    IN  df_forex.data[r][PairAt(code)]
BothPairs(j) ==
    /\ Known(j) /\ Native(j) # target_curr
    /\ HasPair(Native(j) \o target_curr) /\ HasPair(target_curr \o Native(j))
NoPair(j) ==
    /\ Known(j) /\ Native(j) # target_curr
    /\ ~HasPair(Native(j) \o target_curr) /\ ~HasPair(target_curr \o Native(j))

\* the column of row values a multiplication by the direct column gives
ByDirect(j) ==
    [i \in Rows(df) |-> IF HasRate(i)
                        THEN Fmul(df.data[i][j], Rate(i, Native(j) \o target_curr))
                        ELSE NaN]
\* the column of row values a division by the inverse column gives
ByInverse(j) ==
    [i \in Rows(df) |-> IF HasRate(i)
                        THEN Fdiv(df.data[i][j], Rate(i, target_curr \o Native(j)))
                        ELSE NaN]

\* C3 as stated: with both the direct and the inverse column in the FX table,
\* the asset is converted by multiplication with the direct column, whatever
\* the order of the columns.
C3_DirectWhateverOrder ==
    Returned => \A j \in Cols(df) : BothPairs(j) => Column(df_converted, j) = ByDirect(j)

\* C3 amended: with both columns in the FX table, the asset is converted with
\* whichever of the two comes first in the FX table's column order: multiplied
\* by the direct column if it comes first, divided by the inverse column if
\* that one comes first.
C3_FirstColumnWins ==
    Returned => \A j \in Cols(df) : BothPairs(j) =>
        Column(df_converted, j) =
            IF PairAt(Native(j) \o target_curr) < PairAt(target_curr \o Native(j))
            THEN ByDirect(j) ELSE ByInverse(j)

C3_Witness ==
    /\ Returned
    /\ \E j \in Cols(df) :
        /\ BothPairs(j)
        /\ PairAt(target_curr \o Native(j)) < PairAt(Native(j) \o target_curr)
        /\ \E i \in Rows(df) : IsFinite(df_converted.data[i][j]) /\ HasRate(i)
        /\ ByDirect(j) # ByInverse(j)

\* C4: an asset already quoted in the target currency comes back equal to its
\* input on every date, whatever the FX table holds, also on dates for which the
\* FX table has no row.
C4_SameCurrencyPassthrough ==
    Returned => \A j \in Cols(df) :
        (Known(j) /\ Native(j) = target_curr) =>
            \A i \in Rows(df) : df_converted.data[i][j] = df.data[i][j]

C4_Witness ==
    /\ Returned
    /\ \E j, k \in Cols(df) :
        /\ Native(j) = target_curr
        /\ Native(k) # target_curr
        /\ Column(df_converted, k) # Column(df, k)
        /\ \E i \in Rows(df) : ~HasRate(i) /\ IsFinite(df_converted.data[i][j])

DropColumn(t, j) ==
    LET keep == SelectSeq([c \in Cols(t) |-> c], LAMBDA c : c # j)
    IN  Frame(t.index, [n \in 1..Len(keep) |-> t.columns[keep[n]]],
              [i \in Rows(t) |-> [n \in 1..Len(keep) |-> t.data[i][keep[n]]]])

\* C5: an asset with neither the direct nor the inverse column does not make
\* the call fail (only an unknown ticker does); its column comes back equal to
\* the input, the rate-not-found message is printed, and every other asset is
\* converted exactly as in a call on the table without that asset.
C5_MissingRateIsNotFatal ==
    /\ fx_pc = "raised" => \E j \in Cols(df) : ~Known(j)
    /\ Returned => \A j \in Cols(df) : NoPair(j) =>
        /\ Column(df_converted, j) = Column(df, j)
        /\ \E n \in 1..Len(printed) :
              printed[n] = <<"Taux de change non trouve pour", Native(j), target_curr>>
        /\ LET without == devisechange(DropColumn(df, j), df_forex, target_curr).df_converted
           IN  DropColumn(df_converted, j) = without

C5_Witness ==
    /\ Returned
    /\ \E j, k \in Cols(df) :
        /\ NoPair(j)
        /\ k > j
        /\ Column(df_converted, k) # Column(df, k)
        /\ \E i \in Rows(df) : IsFinite(df_converted.data[i][k])

\* |z - p| <= 4 * 2^-Prec * |p|: equal up to the rounding of the (at most
\* three) operations of a round trip
Close(z, p) ==
    /\ IsFinite(z) /\ IsFinite(p)
    /\ LET lo == IF z.e < p.e THEN z.e ELSE p.e
           zz == z.m * Pow2(z.e - lo)
           pp == p.m * Pow2(p.e - lo)
       IN  Abs(zz - pp) * Pow2(Prec) <= 4 * Abs(pp)

Convertible(j) ==
    /\ Known(j) /\ Native(j) # target_curr
    /\ HasPair(Native(j) \o target_curr) \/ HasPair(target_curr \o Native(j))

\* C6 as stated: the round trip (back through the inverse-pair reading of the
\* same FX column) reproduces the original price on every date that has an FX
\* row.
C6_RoundTripExact ==
    fx_pc = "back" => \A j \in Cols(df) : Convertible(j) =>
        \A i \in Rows(df) : (HasRate(i) /\ IsFinite(df.data[i][j])) =>
            back[j][i] = df.data[i][j]

\* C6 amended: the round trip (back through the same FX table, or through the
\* table of reciprocal rates) reproduces the original price within floating
\* point tolerance, a relative error of at most 4 units of rounding, on every
\* date that has an FX row.
C6_RoundTripWithinTolerance ==
    fx_pc = "back" => \A j \in Cols(df) : Convertible(j) =>
        \A i \in Rows(df) : (HasRate(i) /\ IsFinite(df.data[i][j])) =>
            /\ Close(back[j][i], df.data[i][j])
            /\ Close(back_recip[j][i], df.data[i][j])

C6_Witness ==
    /\ fx_pc = "back"
    /\ \E j \in Cols(df) : Convertible(j) /\
        \E i \in Rows(df) :
            /\ HasRate(i) /\ IsFinite(df.data[i][j])
            /\ df_converted.data[i][j] # df.data[i][j]
            /\ back[j][i] # df.data[i][j]
            /\ Close(back[j][i], df.data[i][j])

(***************************************************************************)
(* Return series (data.py lines 100-103).                                  *)
(***************************************************************************)
\* DataFrame.ffill: a missing value takes the last value above it
RECURSIVE Filled(_, _, _)
Filled(t, i, j) ==
    IF t.data[i][j] # NaN \/ i = 1 THEN t.data[i][j] ELSE Filled(t, i - 1, j)

\* DataFrame.pct_change(): data / data.shift(1) - 1, on the forward-filled
\* prices when fill_method is "pad" (the default up to pandas 2), on the
\* prices as they are otherwise
pct_change(t, fill) ==
    LET at(i, j) == IF fill = "pad" THEN Filled(t, i, j) ELSE t.data[i][j]
    IN  [t EXCEPT !.data =
            [i \in Rows(t) |-> [j \in Cols(t) |->
                IF i = 1 THEN NaN ELSE Fsub(Fdiv(at(i, j), at(i - 1, j)), One)]]]

\* .replace([np.inf, -np.inf], 0)
replace_inf(t) ==
    [t EXCEPT !.data =
        [i \in Rows(t) |-> [j \in Cols(t) |->
            IF t.data[i][j].k = "inf" THEN Zero ELSE t.data[i][j]]]]

\* day 0 is a Monday
dayofweek(entry) == entry.day % 7

\* the rows of t at the positions where keep[i] holds, in order
SelectRows(t, keep) ==
    LET kept == SelectSeq([i \in Rows(t) |-> i], LAMBDA i : keep[i])
    IN  Frame([n \in 1..Len(kept) |-> t.index[kept[n]]], t.columns,
              [n \in 1..Len(kept) |-> t.data[kept[n]]])

\* mutant: dropna(how='all'), a row goes only when all its values are missing
dropna_all(t) ==
    SelectRows(t, [i \in Rows(t) |-> \E j \in Cols(t) : t.data[i][j] # NaN])

\* .dropna(axis=0): a row with any missing value goes
dropna(t) ==
    SelectRows(t, [i \in Rows(t) |-> \A j \in Cols(t) : t.data[i][j] # NaN])

\* lines 100-102
returns_of(prices, fill) ==
    LET pct == replace_inf(pct_change(prices, fill))
        stamped == [pct EXCEPT !.index = [i \in Rows(pct) |-> Timestamp(pct.index[i].day, 0)]]
    IN  dropna(SelectRows(stamped, [i \in Rows(stamped) |-> dayofweek(stamped.index[i]) < 5]))

RetPriceSeq == <<Flt(2, 0), Zero, Flt(3, 0), NaN, Flt(5, 0), Zero, Zero, Flt(-1, 0)>>
FirstDays == {2, 4, 5}

\* converted prices on consecutive calendar days from `first` on
RetPriceFrames ==
    {Frame([i \in 1..T |-> Date(first + i - 1)],
           [j \in 1..n |-> RetTickers[j]],
           [i \in 1..T |-> [j \in 1..n |-> Cyclic(RetPriceSeq, start[j] + i)]]) :
        <<n, T, first, start>> \in
            UNION {{<<nn, tt, f, st>> : tt \in 1..MaxDates + 1, f \in FirstDays,
                                        st \in [1..nn -> 1..Len(RetPriceSeq)]} :
                   nn \in 1..MaxCols}}

FxIdle ==
    /\ df = NoFrame
    /\ df_forex = NoFrame
    /\ target_curr = "EUR"
    /\ df_converted = NoFrame
    /\ printed = <<>>
    /\ fx_pc = "idle"
    /\ back = <<>>
    /\ back_recip = <<>>

InitRet ==
    /\ price_data_converted \in RetPriceFrames
    /\ fill_method \in {"pad", "none"}
    /\ returns_data = NoFrame
    /\ ret_pc = "start"
    /\ FxIdle /\ OptIdle /\ AnaIdle

BuildReturns ==
    /\ ret_pc = "start"
    /\ returns_data' = returns_of(price_data_converted, fill_method)
    /\ ret_pc' = "done"
    /\ UNCHANGED <<price_data_converted, fill_method>>
    /\ UNCHANGED <<fxVars, optVars, anaVars>>

NextRet == BuildReturns

SpecRet == InitRet /\ [][NextRet]_vars

(***************************************************************************)
(* Return series: claim C10.                                               *)
(***************************************************************************)
\* the row of the price table a returned date comes from
PriceRow(r) ==
    CHOOSE i \in Rows(price_data_converted) :
        price_data_converted.index[i].day = returns_data.index[r].day

\* C10: every included date is a weekday; every included date has a finite,
\* non-missing value for every ticker; a percentage change that was infinite
\* is 0 in the table; the first price date is not in the table.
C10_ReturnsClean ==
    ret_pc = "done" =>
        /\ returns_data.columns = price_data_converted.columns
        /\ \A r \in Rows(returns_data) :
            /\ returns_data.index[r].day % 7 \in 0..4
            /\ returns_data.index[r].day # price_data_converted.index[1].day
            /\ DOMAIN returns_data.data[r] = Cols(price_data_converted)
            /\ \A j \in Cols(returns_data) :
                /\ returns_data.data[r][j].k = "num"
                /\ pct_change(price_data_converted, fill_method).data[PriceRow(r)][j].k = "inf"
                   => returns_data.data[r][j] = Zero

C10_Witness ==
    /\ ret_pc = "done"
    /\ Len(price_data_converted.index) > Len(returns_data.index) + 1
    /\ \E i \in Rows(price_data_converted) :
          price_data_converted.index[i].day % 7 \in {5, 6}
    /\ \E r \in Rows(returns_data), j \in Cols(returns_data) :
        /\ pct_change(price_data_converted, fill_method).data[PriceRow(r)][j] = Inf(-1)
        /\ returns_data.data[r][j] = Zero
    /\ \E r \in Rows(returns_data), j \in Cols(returns_data) :
        returns_data.data[r][j] # Zero

(***************************************************************************)
(* Portfolio optimiser (streamlit_app.py lines 47-77).                     *)
(***************************************************************************)
MaxN == 4

ESG_dict ==
    [t \in {"EQT", "SAGA-B.ST", "ACGBY", "ATEYY", "2395.TW", "AFL", "ANET", "ARES",
            "ACGL", "AIR.PA", "2618.TW", "AON", "A17U.SI", "TEMN.SW", "HOLN.SW",
            "2802.T", "BAMI.MI", "PST.MI", "AVB", "2588.HK", "INDIGO.NS", "9202.T"} |-> 2] @@
    [t \in {"ADM.L", "AU", "AVY", "KMI"} |-> 3] @@
    [t \in {"300999.SZ", "MB.MI", "ALE.WA"} |-> 4]

\* mutant: the default is no cap
DefaultCap_one == Rat(1, 1)

\* max_poids_par_actif=0.25 in the signature
DefaultCap == Rat(1, 4)

Modes == {"max_rendement", "min_volatilite", "esg", "egale_pondere", "autre"}

\* the notes argument: None, the full ESG_dict, or a table that lacks column c
Given(scores) == [given |-> TRUE, scores |-> scores]
Without(scores, c) == [t \in DOMAIN scores \ {c} |-> scores[t]]
NotesChoices(columns) ==
    {NoNotes, Given(ESG_dict)} \cup
    {Given(Without(ESG_dict, columns[j])) : j \in 1..Len(columns)}

\* the max_poids_par_actif argument: absent, or a value
Absent == [passed |-> FALSE, value |-> Rat(0, 1)]
Passed(v) == [passed |-> TRUE, value |-> v]
CapArgs == {Absent, Passed(Rat(1, 2)), Passed(Rat(1, 1))}

\* the points the solver may stop at, per coordinate
WeightGrid == {Rat(k, 30000) : k \in {0, 3, 4, 7500, 15000, 29996, 29997, 30000}}

\* line 52: np.sum(w) - 1 = 0, to the solver's accuracy of 1e-6
contraintes(x) ==
    LET d == RSub(RSum(x), Rat(1, 1))
    IN  Abs(d.num) <= d.den \div 1000000

\* mutant: every weight is bounded by 1, whatever the cap
bornes_unit(n, cap) == [i \in 1..n |-> <<Rat(0, 1), Rat(1, 1)>>]

\* line 53
bornes(n, cap) == [i \in 1..n |-> <<Rat(0, 1), cap>>]

\* scipy.optimize.minimize(objectif, x0, method='SLSQP', bounds, constraints):
\* a local solver.  All that is known of the point it stops at is that it lies
\* within the bounds, and meets the constraint when it reports success; it
\* reports failure on an infeasible problem.  On an empty x0 it either raises
\* or returns the empty point.
minimize(n, bnds) ==
    IF n = 0
    THEN {[raised |-> TRUE, x |-> <<>>, success |-> FALSE]} \cup
         {[raised |-> FALSE, x |-> <<>>, success |-> b] : b \in BOOLEAN}
    ELSE {[raised |-> FALSE, x |-> x, success |-> ok] :
            <<x, ok>> \in {xo \in [1..n -> WeightGrid] \X BOOLEAN :
                /\ \A i \in 1..n : RLeq(bnds[i][1], xo[1][i]) /\ RLeq(xo[1][i], bnds[i][2])
                /\ xo[2] => contraintes(xo[1])}}

\* mutant: the equal weights are cut to the cap
poids_initiaux_capped(n, cap) ==
    [i \in 1..n |-> IF RLess(cap, Rat(1, n)) THEN cap ELSE Rat(1, n)]

\* line 54: np.ones(nb_actifs) / nb_actifs
poids_initiaux(n, cap) == [i \in 1..n |-> Rat(1, n)]

Outcome(pc, w, res, called) ==
    [pc |-> pc, poids |-> w, resultat |-> res, solver_called |-> called]

\* lines 75-77
Solve(n, cap) ==
    {IF r.raised THEN Outcome("ValueError", <<>>, NoResult, TRUE)
     ELSE Outcome("returned", r.x, [x |-> r.x, success |-> r.success], TRUE) :
        r \in minimize(n, bornes(n, cap))}

\* mutant: esg mode without a usable score table falls back to equal weights
optimiser_portefeuille_fallback(returns, m, nt, cap) ==
    LET nb_actifs == Len(returns.columns) IN
    IF m \in {"max_rendement", "min_volatilite"} THEN Solve(nb_actifs, cap)
    ELSE IF m = "esg"
              /\ nt.given /\ \A j \in Cols(returns) : returns.columns[j] \in DOMAIN nt.scores
         THEN Solve(nb_actifs, cap)
    ELSE IF m \in {"egale_pondere", "esg"}
         THEN {Outcome("returned", poids_initiaux(nb_actifs, cap), NoResult, FALSE)}
    ELSE {Outcome("UnboundLocalError", <<>>, NoResult, FALSE)}

\* optimiser_portefeuille(df, mode, notes, max_poids_par_actif): every way the
\* call can end
optimiser_portefeuille(returns, m, nt, cap) ==
    LET nb_actifs == Len(returns.columns) IN
    IF m \in {"max_rendement", "min_volatilite"} THEN Solve(nb_actifs, cap)
    ELSE IF m = "esg" /\ nt.given
         THEN IF \E j \in Cols(returns) : returns.columns[j] \notin DOMAIN nt.scores
              THEN {Outcome("KeyError", <<>>, NoResult, FALSE)}
              ELSE Solve(nb_actifs, cap)
    ELSE IF m = "egale_pondere"
         THEN {Outcome("returned", poids_initiaux(nb_actifs, cap), NoResult, FALSE)}
    \* no branch bound `objectif`: line 75 fails on the name before the call
    ELSE {Outcome("UnboundLocalError", <<>>, NoResult, FALSE)}

ReturnSeq == <<Rat(1, 100), Rat(1, 100), Rat(1, 100), Rat(1, 100),
               Rat(-2, 100), Rat(0, 1), Rat(0, 1), Rat(3, 100)>>

\* returns of n assets on T weekdays; column j runs along ReturnSeq from start[j]
ReturnFrame(n, T, start) ==
    Frame([i \in 1..T |-> Timestamp(i, 0)],
          [j \in 1..n |-> RetTickers[j]],
          [i \in 1..T |-> [j \in 1..n |-> Cyclic(ReturnSeq, start[j] + i)]])

OptFrames ==
    {ReturnFrame(n, 2, [j \in 1..n |-> s + j]) : <<n, s>> \in (0..MaxN) \X {0, 2}}

InitOpt ==
    /\ rendements \in OptFrames
    /\ mode = "none"
    /\ notes = NoNotes
    /\ max_poids_par_actif = DefaultCap
    /\ cap_passed = FALSE
    /\ solver_called = FALSE
    /\ resultat = NoResult
    /\ poids = <<>>
    /\ opt_pc = "start"
    /\ FxIdle /\ RetIdle /\ AnaIdle

Optimiser ==
    /\ opt_pc = "start"
    /\ \E m \in Modes, c \in CapArgs :
       \E nt \in (IF m = "esg" THEN NotesChoices(rendements.columns) ELSE {NoNotes}) :
       LET cap == IF c.passed THEN c.value ELSE DefaultCap IN
       \E o \in optimiser_portefeuille(rendements, m, nt, cap) :
          /\ mode' = m
          /\ notes' = nt
          /\ cap_passed' = c.passed
          /\ max_poids_par_actif' = cap
          /\ solver_called' = o.solver_called
          /\ resultat' = o.resultat
          /\ poids' = o.poids
          /\ opt_pc' = o.pc
    /\ UNCHANGED rendements
    /\ UNCHANGED <<fxVars, retVars, anaVars>>

NextOpt == Optimiser

SpecOpt == InitOpt /\ [][NextOpt]_vars

(***************************************************************************)
(* Optimiser: claims C1, C2, C9.                                           *)
(***************************************************************************)
NbActifs == Len(rendements.columns)
SolvedMode == mode \in {"max_rendement", "min_volatilite", "esg"}
SolvedReturn == opt_pc = "returned" /\ SolvedMode /\ NbActifs >= 1

\* |sum(w) - 1| <= 1e-6
SumsToOne(w) ==
    LET total == RSum(w)
    IN  Abs(total.num - total.den) <= total.den \div 1000000
WithinCap(w, cap) ==
    \A i \in 1..Len(w) : w[i].num >= 0 /\ w[i].num * cap.den <= cap.num * w[i].den

\* C1 as stated: every vector a solved mode returns for n >= 1 assets sums to 1
\* within 1e-6 and has every component in [0, max_weight_per_asset], for any cap.
C1_AlwaysOnSimplex ==
    SolvedReturn => SumsToOne(poids) /\ WithinCap(poids, max_poids_par_actif)

\* C1 amended: every vector a solved mode returns for n >= 1 assets has one
\* component per asset, each in [0, max_weight_per_asset]; its components sum
\* to 1 (within 1e-6) when the solver reports success, and they cannot when
\* n * cap < 1 (the solver's last iterate is returned all the same).
C1_BoundedAndSumOnSuccess ==
    SolvedReturn =>
        /\ Len(poids) = NbActifs
        /\ poids = resultat.x
        /\ WithinCap(poids, max_poids_par_actif)
        /\ resultat.success => SumsToOne(poids)
        /\ NbActifs * max_poids_par_actif.num < max_poids_par_actif.den
              => ~SumsToOne(poids) /\ ~resultat.success

C1_Witness ==
    /\ SolvedReturn /\ resultat.success /\ cap_passed
    /\ NbActifs = 3
    /\ max_poids_par_actif = Rat(1, 2)
    /\ \E i, j \in 1..Len(poids) :
          poids[i] = max_poids_par_actif /\ poids[j] # Rat(0, 1) /\ poids[j] # poids[i]

\* C2: equal_weight returns exactly 1/n for each of the n assets, whatever the
\* returns and whatever the cap (a weight may exceed the cap), and the solver
\* is not invoked.
C2_EqualWeights ==
    (opt_pc # "start" /\ mode = "egale_pondere") =>
        /\ opt_pc = "returned"
        /\ ~solver_called
        /\ Len(poids) = NbActifs
        /\ \A i \in 1..Len(poids) : poids[i].num * NbActifs = poids[i].den

C2_Witness ==
    /\ opt_pc = "returned" /\ mode = "egale_pondere"
    /\ NbActifs = 3
    /\ rendements.data[1][1] # rendements.data[1][2]
    /\ \E i \in 1..Len(poids) : ~WithinCap(<<poids[i]>>, max_poids_par_actif)

Called == opt_pc # "start"

\* C9 as stated: when the caller passes no max_weight_per_asset, the cap
\* applied is 1.0.
C9_DefaultCapIsOne ==
    (Called /\ ~cap_passed) => max_poids_par_actif = [num |-> 1, den |-> 1]

\* C9 amended: when the caller passes no max_weight_per_asset, the cap applied
\* is 0.25: in a solved mode no asset receives more than 0.25, and the
\* constraint set (weights in [0, 0.25], sum 1) is feasible only for n >= 4, so
\* that for n <= 3 no returned vector sums to 1.
C9_DefaultCapIsQuarter ==
    (Called /\ ~cap_passed) =>
        /\ max_poids_par_actif = [num |-> 1, den |-> 4]
        /\ SolvedReturn =>
            /\ \A i \in 1..Len(poids) : 4 * poids[i].num <= poids[i].den
            /\ (SumsToOne(poids) \/ resultat.success) => NbActifs >= 4

C9_Witness ==
    /\ SolvedReturn /\ ~cap_passed
    /\ NbActifs = 4 /\ resultat.success /\ SumsToOne(poids)

(***************************************************************************)
(* Portfolio analyser (streamlit_app.py lines 79-96).                      *)
(***************************************************************************)
TAUX_SANS_RISQUE == Rat(4, 100)
SEUIL_PONDERATION == Rat(1, 10000)

\* rendements.dot(poids): one portfolio return per date
dot(returns, w) ==
    [i \in Rows(returns) |-> RSum([j \in Cols(returns) |-> RMul(returns.data[i][j], w[j])])]

\* Series.mean() * 252
rendement_annuel_of(port) ==
    IF Len(port) = 0 THEN [k |-> "nan", v |-> Rat(0, 1)]
    ELSE [k |-> "num", v |-> RMul(RSum(port), Rat(252, Len(port)))]

\* the series takes one value on all its dates
Constant(port) == \A i \in 1..Len(port) : port[i] = port[1]

\* Series.std() * np.sqrt(252), by its kind: NaN on fewer than two dates (the
\* sample deviation divides by T - 1), positive on a series that varies,
\* exactly 0 on a series of zeros or on two equal values (their mean is that
\* value exactly).  From three equal values on, the mean is rounded and the
\* deviations from it are 0 or a rounding residue (0.1 three times gives a
\* deviation of 1.7e-17): both kinds.
volatilite_kinds(port) ==
    IF Len(port) < 2 THEN {"nan"}
    ELSE IF ~Constant(port) THEN {"pos"}
    ELSE IF port[1] = Rat(0, 1) \/ Len(port) = 2 THEN {"zero"}
    ELSE {"zero", "pos"}

Vol(kind, port) == [k |-> kind, of |-> port]
NaNValue == [k |-> "nan", num |-> Rat(0, 1), den |-> Vol("nan", <<>>)]
Number(q) == [k |-> "num", num |-> q, den |-> Vol("one", <<>>)]

\* x / v for a volatility v; a zero v is a division by zero
Quotient(x, v) ==
    IF x.k = "nan" \/ v.k = "nan" THEN NaNValue
    ELSE IF v.k = "zero" THEN [k |-> "inf", num |-> x.v, den |-> v]
    ELSE [k |-> "ratio", num |-> x.v, den |-> v]

Excess(ra) == IF ra.k = "nan" THEN ra ELSE [ra EXCEPT !.v = RSub(ra.v, TAUX_SANS_RISQUE)]

\* mutant: the ratio is taken whatever the volatility
sharpe_of_unguarded(ra, v) == Quotient(Excess(ra), v)

\* line 83: (rendement_annuel - TAUX_SANS_RISQUE)/volatilite if volatilite != 0 else 0
sharpe_of(ra, v) == IF v.k # "zero" THEN Quotient(Excess(ra), v) ELSE Number(Rat(0, 1))

\* DataFrame.round(2), on a value known exactly or only by its kind
Round2(q) ==
    LET n == q.num * 100
        f == n \div q.den
        r == n % q.den
    IN  IF 2 * r > q.den \/ (2 * r = q.den /\ f % 2 = 1) THEN f + 1 ELSE f
Rounded(value) == [round |-> 2, of |-> value]

\* mutant: a weight equal to the threshold is listed
Material_inclusive(p) == RLeq(SEUIL_PONDERATION, p)

\* poids > SEUIL_PONDERATION
Material(p) == RLess(SEUIL_PONDERATION, p)

\* f"{p * 100:.2f}%": the percentage in hundredths of a percent
Pourcentage(p) == Round2(RMul(p, Rat(100, 1)))

\* [f"{p * 100:.2f}%" for p in poids[poids > SEUIL_PONDERATION]]
Ponderations(w) ==
    LET kept == SelectSeq([j \in 1..Len(w) |-> j], LAMBDA j : Material(w[j]))
    IN  [n \in 1..Len(kept) |-> Pourcentage(w[kept[n]])]

\* rendements.columns[np.where(poids > SEUIL_PONDERATION)[0]]
Actifs(returns, w) ==
    LET kept == SelectSeq([j \in 1..Len(w) |-> j], LAMBDA j : Material(w[j]))
    IN  [n \in 1..Len(kept) |-> returns.columns[kept[n]]]

\* lines 91-94: the two lists side by side
df_actifs(returns, w) ==
    [n \in 1..Len(Actifs(returns, w)) |->
        [Actif |-> Actifs(returns, w)[n], Ponderation |-> Ponderations(w)[n]]]

AnaStarts == {0, 2, 4}
AnaFrames ==
    {ReturnFrame(n, T, start) :
        <<n, T, start>> \in UNION {{<<nn, tt, st>> : tt \in 1..MaxDates + 1,
                                                     st \in [1..nn -> AnaStarts]} :
                                   nn \in 1..MaxCols}}

\* the weights analyser_portefeuille is called with: what optimiser_portefeuille
\* returned for the table
InitAna ==
    /\ rendements \in AnaFrames
    /\ mode \in {"max_rendement", "egale_pondere"}
    /\ notes = NoNotes
    /\ cap_passed = TRUE
    /\ max_poids_par_actif = Rat(1, 1)
    /\ \E o \in optimiser_portefeuille(rendements, mode, notes, max_poids_par_actif) :
          /\ solver_called = o.solver_called
          /\ resultat = o.resultat
          /\ poids = o.poids
          /\ opt_pc = o.pc
    /\ metriques = NoMetrics
    /\ actifs = <<>>
    /\ div_by_zero = FALSE
    /\ perf = <<>>
    /\ ana_pc = "start"
    /\ FxIdle /\ RetIdle

\* metriques, actifs = analyser_portefeuille(df, poids)
Analyser ==
    /\ ana_pc = "start"
    /\ opt_pc = "returned"
    /\ LET rendements_port == dot(rendements, poids)
           ra == rendement_annuel_of(rendements_port)
       IN  \E kind \in volatilite_kinds(rendements_port) :
             LET volatilite == Vol(kind, rendements_port)
                 sharpe == sharpe_of(ra, volatilite)
             IN  /\ metriques' =
                        [rendement_annuel |-> ra, volatilite |-> volatilite, sharpe |-> sharpe,
                         df_metriques |->
                            [rendement |-> IF ra.k = "nan" THEN Rounded(ra)
                                           ELSE Rounded(Round2(RMul(ra.v, Rat(100, 1)))),
                             volatilite |-> Rounded(volatilite),
                             sharpe |-> Rounded(sharpe)]]
                 /\ div_by_zero' = (sharpe.k = "inf")
    /\ actifs' = df_actifs(rendements, poids)
    /\ ana_pc' = "done"
    /\ UNCHANGED perf
    /\ UNCHANGED <<fxVars, retVars, optVars>>

NextAna == Analyser

SpecAna == InitAna /\ [][NextAna]_vars

(***************************************************************************)
(* Claims on the analyser                                                  *)
(***************************************************************************)
Analysed == ana_pc = "done"
Portfolio == dot(rendements, poids)

\* C7 as stated: the Sharpe ratio is exactly 0 whenever the portfolio's daily
\* return series has zero variance, that is takes one value on two dates or more
C7_ZeroVarianceGivesZero ==
    (Analysed /\ Len(Portfolio) >= 2 /\ Constant(Portfolio))
        => metriques.sharpe = Number(Rat(0, 1))

\* C7 amended: the analyser never divides by zero; the Sharpe ratio is exactly 0
\* whenever the computed annual volatility is exactly 0, which it is on a
\* series of zeros and on two equal returns; in every other case, a rounding
\* residue on a longer constant series included, it is
\* (annual_return - 0.04) / annual_volatility, NaN on fewer than two dates; the
\* report shows that value rounded to two decimals
C7_SharpeGuardedOnComputedVolatility ==
    Analysed =>
        /\ ~div_by_zero
        /\ metriques.volatilite.of = Portfolio
        /\ metriques.rendement_annuel = rendement_annuel_of(Portfolio)
        /\ metriques.volatilite.k = "zero" => metriques.sharpe = Number(Rat(0, 1))
        /\ metriques.volatilite.k = "pos" =>
              metriques.sharpe =
                  [k |-> "ratio",
                   num |-> RSub(metriques.rendement_annuel.v, Rat(4, 100)),
                   den |-> metriques.volatilite]
        /\ metriques.volatilite.k = "nan" => metriques.sharpe = NaNValue
        /\ metriques.volatilite.k = "nan" <=> Len(Portfolio) < 2
        /\ (Len(Portfolio) >= 2 /\ Constant(Portfolio)
              /\ (Portfolio[1] = Rat(0, 1) \/ Len(Portfolio) = 2))
              => metriques.volatilite.k = "zero"
        /\ metriques.volatilite.k = "zero" => Constant(Portfolio)
        /\ metriques.df_metriques.sharpe = Rounded(metriques.sharpe)

\* a single asset of constant non-zero return held at weight 1 over three dates,
\* computed volatility exactly 0, Sharpe ratio 0 though the excess return is not
C7_Witness ==
    /\ Analysed
    /\ Len(poids) = 1 /\ poids[1] = Rat(1, 1)
    /\ Len(Portfolio) >= 3 /\ Constant(Portfolio) /\ Portfolio[1] # Rat(0, 1)
    /\ metriques.volatilite.k = "zero"
    /\ metriques.rendement_annuel.v # Rat(4, 100)
    /\ metriques.sharpe = Number(Rat(0, 1))

RAbs(a) == [a EXCEPT !.num = Abs(a.num)]
Listed == {j \in 1..Len(poids) : RLess(Rat(1, 10000), poids[j])}
\* the column of the n-th line of the report
ColumnOf(n) == CHOOSE j \in Cols(rendements) : rendements.columns[j] = actifs[n].Actif
RECURSIVE SumPonderations(_)
SumPonderations(n) == IF n = 0 THEN 0 ELSE actifs[n].Ponderation + SumPonderations(n - 1)

Failed == opt_pc \in {"KeyError", "UnboundLocalError", "ValueError"}

\* C11: a call of the optimiser with an empty returns table (n = 0) ends in an
\* explicit failure and returns no weight vector, in every mode, equal weight
\* included
C11_EmptyTableFails ==
    (Called /\ NbActifs = 0) => (Failed /\ opt_pc # "returned")
MissingScore == \E j \in Cols(rendements) : rendements.columns[j] \notin DOMAIN notes.scores

\* C12: in esg mode, when the score table lacks a score for a column of the
\* returns table (KeyError at line 65) or no score table is supplied (objectif
\* is unbound at line 75), the call ends in an explicit failure: the solver is
\* not run and no weight vector is returned
C12_EsgWithoutScoresFails ==
    (Called /\ mode = "esg" /\ (~notes.given \/ MissingScore)) =>
        /\ Failed
        /\ opt_pc = (IF notes.given THEN "KeyError" ELSE "UnboundLocalError")
        /\ ~solver_called
        /\ poids = <<>>
        /\ resultat = NoResult

\* three assets in esg mode with a score table that lacks the second one
C12_Witness ==
    /\ Called /\ mode = "esg"
    /\ NbActifs = 3
    /\ notes = Given(Without(ESG_dict, rendements.columns[2]))
    /\ opt_pc = "KeyError"

(***************************************************************************)
(* Cumulative performance (streamlit_app.py lines 98-102).                 *)
(***************************************************************************)
\* mutant: the series opens at the basis 1.0 and lags one date behind
RECURSIVE cumprod_fromBasis(_)
cumprod_fromBasis(s) ==
    IF s = <<>> THEN <<>>
    ELSE LET before == cumprod_fromBasis(SubSeq(s, 1, Len(s) - 1))
         IN  Append(before, IF before = <<>> THEN Rat(1, 1)
                            ELSE RMul(before[Len(before)], s[Len(s) - 1]))

\* Series.cumprod(): each value is the one before it times the entry, the first
\* is the first entry
RECURSIVE cumprod(_)
cumprod(s) ==
    IF s = <<>> THEN <<>>
    ELSE LET before == cumprod(SubSeq(s, 1, Len(s) - 1))
         IN  Append(before, IF before = <<>> THEN s[Len(s)]
                            ELSE RMul(before[Len(before)], s[Len(s)]))

\* (1 + rendements.dot(poids)).cumprod(), the series plot_perf draws
performance(returns, w) ==
    LET port == dot(returns, w)
    IN  [index |-> returns.index,
         values |-> cumprod([i \in 1..Len(port) |-> RAdd(Rat(1, 1), port[i])])]

PerfSeq == <<Rat(1, 10), Rat(1, 10), Rat(-1, 5), Rat(0, 1), Rat(3, 10)>>
PerfStarts == {0, 2}
PerfFrames ==
    {Frame([i \in 1..T |-> Timestamp(i, 0)],
           [j \in 1..n |-> RetTickers[j]],
           [i \in 1..T |-> [j \in 1..n |-> Cyclic(PerfSeq, start[j] + i)]]) :
        <<n, T, start>> \in UNION {{<<nn, tt, st>> : tt \in 1..MaxDates + 1,
                                                     st \in [1..nn -> PerfStarts]} :
                                   nn \in 1..MaxCols}}

\* weights of the solver's grid whose products stay small, and the equal weights
PerfGrid == {Rat(0, 1), Rat(1, 4), Rat(1, 2), Rat(1, 1)}

\* plot_perf is called with the table and the weights optimiser_portefeuille
\* returned for it (lines 462-502)
InitPerf ==
    /\ rendements \in PerfFrames
    /\ mode \in {"max_rendement", "egale_pondere"}
    /\ notes = NoNotes
    /\ cap_passed = TRUE
    /\ max_poids_par_actif = Rat(1, 1)
    /\ \E o \in optimiser_portefeuille(rendements, mode, notes, max_poids_par_actif) :
          /\ mode = "max_rendement" => \A j \in 1..Len(o.poids) : o.poids[j] \in PerfGrid
          /\ solver_called = o.solver_called
          /\ resultat = o.resultat
          /\ poids = o.poids
          /\ opt_pc = o.pc
    /\ metriques = NoMetrics
    /\ actifs = <<>>
    /\ div_by_zero = FALSE
    /\ perf = <<>>
    /\ ana_pc = "start"
    /\ FxIdle /\ RetIdle

\* plot_perf(df, poids, titre)
PlotPerf ==
    /\ ana_pc = "start"
    /\ opt_pc = "returned"
    /\ perf' = performance(rendements, poids)
    /\ ana_pc' = "plotted"
    /\ UNCHANGED <<metriques, actifs, div_by_zero>>
    /\ UNCHANGED <<fxVars, retVars, optVars>>

NextPerf == PlotPerf

SpecPerf == InitPerf /\ [][NextPerf]_vars

Plotted == ana_pc = "plotted"
\* the return of the portfolio on the i-th date
PortfolioReturn(i) == RSum([j \in Cols(rendements) |-> RMul(rendements.data[i][j], poids[j])])
\* the basis 1.0 times (1 + portfolio return) over the first k dates
RECURSIVE Growth(_)
Growth(k) == IF k = 0 THEN Rat(1, 1) ELSE RMul(Growth(k - 1), RAdd(Rat(1, 1), PortfolioReturn(k)))
\* the basis 1.0 times (1 + return of column j) over the first k dates
RECURSIVE OwnGrowth(_, _)
OwnGrowth(j, k) ==
    IF k = 0 THEN Rat(1, 1)
    ELSE RMul(OwnGrowth(j, k - 1), RAdd(Rat(1, 1), rendements.data[k][j]))

\* C13: the performance series has one value per date of the returns table, on
\* those dates; the value at the k-th date is the product over the first k dates
\* of (1 + portfolio daily return), from the basis 1.0; for a single asset held
\* at weight 1.0 it is that asset's own cumulative growth
C13_CumulativePerformance ==
    Plotted =>
        /\ perf.index = rendements.index
        /\ Len(perf.values) = Len(rendements.index)
        /\ \A k \in 1..Len(perf.values) : perf.values[k] = Growth(k)
        /\ (NbActifs = 1 /\ poids = <<Rat(1, 1)>>) =>
              \A k \in 1..Len(perf.values) : perf.values[k] = OwnGrowth(1, k)

\* one asset at weight 1.0 over three dates of returns 10%, 10%, -20%: the
\* series is 1.1, 1.21, 0.968
C13_Witness ==
    /\ Plotted
    /\ NbActifs = 1 /\ poids = <<Rat(1, 1)>>
    /\ perf.values = <<Rat(11, 10), Rat(121, 100), Rat(121, 125)>>

(***************************************************************************)
(* Currency normaliser, effect on its arguments: claim C14.                *)
(***************************************************************************)
\* C14: a call of the normaliser, whether it returns (all rates found or one
\* missing) or fails on an unknown ticker, leaves the caller's price table and
\* FX rate table as they were: same index (time of day included), same
\* columns, same values
C14_InputsUnchanged ==
    [][(fx_pc = "start" /\ fx_pc' \in {"done", "raised"}) =>
            (df' = df /\ df_forex' = df_forex)]_vars

====
